---- MODULE Spec2Model ----
(***************************************************************************)
(* Edge request gatekeeper of connecto-v1: the in-memory sliding-window    *)
(* rate limiter (lib/rateLimit: consume, pruneOldHits, getClientIp,        *)
(* buildRateLimitHeaders) and the Next.js middleware that calls it         *)
(* (shouldRateLimit, applySecurityHeaders, middleware).                    *)
(*                                                                         *)
(* Strings the code parses (header values it splits and trims, pathnames   *)
(* it prefix-tests, keys it concatenates) are sequences of one-character   *)
(* strings; strings the code only copies or compares are TLA+ strings.     *)
(* One consume() call is synchronous and reads Date.now() within one       *)
(* millisecond, so every nowMs() of one call yields the same clock value.  *)
(* Date.now() counts from 1970: a run starts at a positive clock value and *)
(* the times of a scenario are offsets from the start of the run.          *)
(***************************************************************************)
EXTENDS Integers, Sequences, FiniteSets, TLC

VARIABLES
    now,          \* Date.now(), in ms
    options,      \* the RateLimitOptions the caller passes to consume()
    memoryStore,  \* Map<string, StoreRecord>: key -> [hits, lastPruneAt]
    result,       \* what the last consume() returned (and for which key)
    log,          \* history: per key, every consume() call of the limiter run, in order
    win,          \* history: per key, the calls made inside the window that its first call opened
    req,          \* the request the middleware / getClientIp handled last
    response,     \* the response the middleware returned last
    clientIp,     \* what getClientIp returned last
    tasks         \* the requests in flight on the event loop, each with its key and its stage

vars == <<now, options, memoryStore, result, log, win, req, response, clientIp, tasks>>

Max(a, b) == IF a >= b THEN a ELSE b

\* Nothing yet: no decision, no request, no response, no resolved identity.
NoResult == [kind |-> "none"]
NoRequest == [kind |-> "none"]
NoResponse == [kind |-> "none"]
NoIp == <<>>
NoTasks == <<>>

----------------------------------------------------------------------------
(* lib/rateLimit: the store and consume()                                  *)

\* The prune throttle of consume(): "prune only if > 500ms from last prune".
PruneThrottleMs == 500

\* default bucketCap = Math.max(options.limit * 5, 100)
DefaultCapFactor == 5
DefaultCapFloor == 100

\* Math.ceil(resetMs / 1000)
MsPerSecond == 1000

\* record = { hits: [], lastPruneAt: 0 }
NewRecord == [hits |-> <<>>, lastPruneAt |-> 0]

\* memoryStore.get(key), with the record consume() creates when there is none
GetOrCreate(store, key) == IF key \in DOMAIN store THEN store[key] ELSE NewRecord

\* A store that drops every record whose hits are all older than the last
\* prune of the record being written.
StoreSet_DropIdle(store, key, record) ==
    [k \in {key} \cup {j \in DOMAIN store :
                          \E i \in 1..Len(store[j].hits) :
                              store[j].hits[i] >= record.lastPruneAt} |->
        IF k = key THEN record ELSE store[k]]

\* memoryStore.set(key, record); the record is mutated in place afterwards
StoreSet(store, key, record) ==
    [k \in (DOMAIN store) \cup {key} |-> IF k = key THEN record ELSE store[k]]

\* let i = 0; while (i < hits.length && hits[i] <= cutoff) i++;
RECURSIVE PrefixLen(_, _, _)
PrefixLen(hits, cutoff, i) ==
    IF i < Len(hits) /\ hits[i + 1] <= cutoff
    THEN PrefixLen(hits, cutoff, i + 1)
    ELSE i

\* A prune pass that evicts only the hits strictly older than the cutoff.
RECURSIVE PrefixLen_Strict(_, _, _)
PrefixLen_Strict(hits, cutoff, i) ==
    IF i < Len(hits) /\ hits[i + 1] < cutoff
    THEN PrefixLen_Strict(hits, cutoff, i + 1)
    ELSE i

pruneOldHits_Strict(record, windowMs, t) ==
    LET i == PrefixLen_Strict(record.hits, t - windowMs, 0)
    IN  [hits |-> SubSeq(record.hits, i + 1, Len(record.hits)), lastPruneAt |-> t]

\* A fixed-window limiter: a prune pass that finds the oldest hit expired
\* starts the window afresh instead of evicting only the expired prefix.
pruneOldHits_FixedWindow(record, windowMs, t) ==
    [hits |-> IF Len(record.hits) > 0 /\ record.hits[1] <= t - windowMs
              THEN <<>> ELSE record.hits,
     lastPruneAt |-> t]

\* pruneOldHits(record, windowMs) at clock value t
pruneOldHits(record, windowMs, t) ==
    LET cutoff == t - windowMs
        i == PrefixLen(record.hits, cutoff, 0)
    IN  [hits |-> IF i > 0 THEN SubSeq(record.hits, i + 1, Len(record.hits))
                           ELSE record.hits,
         lastPruneAt |-> t]

\* The throttle with an inclusive bound: a prune pass already 500 ms after the
\* last one.
ShouldPrune_Inclusive(record, t) ==
    record.lastPruneAt = 0 \/ t - record.lastPruneAt >= PruneThrottleMs

\* if (!record.lastPruneAt || nowMs() - record.lastPruneAt > 500)
ShouldPrune(record, t) ==
    record.lastPruneAt = 0 \/ t - record.lastPruneAt > PruneThrottleMs

\* const { ..., bucketCap = Math.max(options.limit * 5, 100) } = options
BucketCapOf(opts) ==
    IF "bucketCap" \in DOMAIN opts
    THEN opts.bucketCap
    ELSE Max(opts.limit * DefaultCapFactor, DefaultCapFloor)

\* A trim that keeps the oldest bucketCap hits and drops the newest.
CapHits_KeepOldest(hits, bucketCap) ==
    IF Len(hits) > bucketCap THEN SubSeq(hits, 1, bucketCap) ELSE hits

\* if (hits.length > bucketCap) hits.splice(0, hits.length - bucketCap)
CapHits(hits, bucketCap) ==
    IF Len(hits) > bucketCap
    THEN SubSeq(hits, Len(hits) - bucketCap + 1, Len(hits))
    ELSE hits

\* The current hit put in front of the stored ones.
PushHit_Front(hits, t) == <<t>> \o hits

\* record.hits.push(nowMs())
PushHit(hits, t) == Append(hits, t)

\* The boundary request denied: a strict comparison.
Allowed_Strict(count, limit) == count < limit

\* const allowed = count <= limit
Allowed(count, limit) == count <= limit

\* The remaining quota computed from the hits stored before the call's own.
Remaining_BeforeHit(allowed, count, limit) ==
    Max(0, limit - (IF allowed THEN count - 1 ELSE limit))

\* const remaining = Math.max(0, limit - (allowed ? count : limit))
Remaining(allowed, count, limit) ==
    Max(0, limit - (IF allowed THEN count ELSE limit))

\* The reset rounded down to whole seconds.
ResetSeconds_Floor(hits, windowMs, t) ==
    LET oldest == IF Len(hits) > 0 THEN hits[1] ELSE t
    IN  Max(0, oldest + windowMs - t) \div MsPerSecond

\* Math.ceil(Math.max(0, oldest + windowMs - nowMs()) / 1000)
ResetSeconds(hits, windowMs, t) ==
    LET oldest == IF Len(hits) > 0 THEN hits[1] ELSE t
        resetMs == Max(0, oldest + windowMs - t)
    IN  (resetMs + MsPerSecond - 1) \div MsPerSecond

\* consume(key, options) at clock value t: the record it leaves in the store
\* and the LimitResult it returns
consume(store, key, opts, t) ==
    LET limit == opts.limit
        windowMs == opts.windowMs
        bucketCap == BucketCapOf(opts)
        record == GetOrCreate(store, key)
        pruned == IF ShouldPrune(record, t)
                  THEN pruneOldHits(record, windowMs, t)
                  ELSE record
        hits == CapHits(PushHit(pruned.hits, t), bucketCap)
        count == Len(hits)
        allowed == Allowed(count, limit)
    IN  [store |-> StoreSet(store, key, [hits |-> hits, lastPruneAt |-> pruned.lastPruneAt]),
         result |-> [allowed |-> allowed,
                     remaining |-> Remaining(allowed, count, limit),
                     limit |-> limit,
                     reset |-> ResetSeconds(hits, windowMs, t)]]

----------------------------------------------------------------------------
(* lib/rateLimit: getClientIp and buildRateLimitHeaders                    *)

\* headers.get(name) is truthy: the header is there and is not "".
Truthy(headers, name) == name \in DOMAIN headers /\ headers[name] # <<>>

\* The characters String.prototype.trim() strips, as far as they are modelled.
Whitespace == {" ", "\t"}

\* xff.split(",")[0]: what precedes the first comma
RECURSIVE CommaAt(_, _)
CommaAt(s, i) ==
    IF i > Len(s) THEN i
    ELSE IF s[i] = "," THEN i ELSE CommaAt(s, i + 1)

FirstEntry(s) == SubSeq(s, 1, CommaAt(s, 1) - 1)

\* .trim()
RECURSIVE TrimStart(_)
TrimStart(s) ==
    IF Len(s) > 0 /\ s[1] \in Whitespace THEN TrimStart(Tail(s)) ELSE s

RECURSIVE TrimEnd(_)
TrimEnd(s) ==
    IF Len(s) > 0 /\ s[Len(s)] \in Whitespace
    THEN TrimEnd(SubSeq(s, 1, Len(s) - 1)) ELSE s

Trim(s) == TrimEnd(TrimStart(s))

\* return "0.0.0.0"
FallbackIp == <<"0", ".", "0", ".", "0", ".", "0">>

\* The priority inverted: x-real-ip consulted before x-forwarded-for.
getClientIp_RealIpFirst(headers) ==
    LET ip == Trim(FirstEntry(headers["x-forwarded-for"]))
    IN  IF Truthy(headers, "x-real-ip") THEN headers["x-real-ip"]
        ELSE IF Truthy(headers, "x-forwarded-for") /\ ip # <<>> THEN ip
        ELSE IF Truthy(headers, "x-vercel-forwarded-for")
             THEN headers["x-vercel-forwarded-for"]
        ELSE <<"0", ".", "0", ".", "0", ".", "0">>

\* The first entry of x-forwarded-for returned without the `if (ip)` test.
getClientIp_NoEmptyCheck(headers) ==
    LET ip == Trim(FirstEntry(headers["x-forwarded-for"]))
    IN  IF Truthy(headers, "x-forwarded-for") THEN ip
        ELSE IF Truthy(headers, "x-real-ip") THEN headers["x-real-ip"]
        ELSE IF Truthy(headers, "x-vercel-forwarded-for")
             THEN headers["x-vercel-forwarded-for"]
        ELSE <<"0", ".", "0", ".", "0", ".", "0">>

\* getClientIp(headers)
getClientIp(headers) ==
    LET ip == Trim(FirstEntry(headers["x-forwarded-for"]))
    IN  IF Truthy(headers, "x-forwarded-for") /\ ip # <<>> THEN ip
        ELSE IF Truthy(headers, "x-real-ip") THEN headers["x-real-ip"]
        ELSE IF Truthy(headers, "x-vercel-forwarded-for")
             THEN headers["x-vercel-forwarded-for"]
        ELSE FallbackIp

\* String(n) for a non-negative integer: its decimal digits
Digit == <<"0", "1", "2", "3", "4", "5", "6", "7", "8", "9">>

RECURSIVE String(_)
String(n) ==
    IF n < 10 THEN Digit[n + 1] ELSE String(n \div 10) \o Digit[(n % 10) + 1]

\* buildRateLimitHeaders(result)
buildRateLimitHeaders(res) ==
    ("RateLimit-Limit" :> String(res.limit))
    @@ ("RateLimit-Remaining" :> String(res.remaining))
    @@ ("RateLimit-Reset" :> String(res.reset))

----------------------------------------------------------------------------
(* middleware.ts                                                           *)

API_WINDOW_MS == 60000
API_LIMIT == 60

\* consume(key, { limit: API_LIMIT, windowMs: API_WINDOW_MS })
ApiPolicy == [limit |-> API_LIMIT, windowMs |-> API_WINDOW_MS]

\* pathname.startsWith(prefix)
StartsWith(s, prefix) ==
    Len(s) >= Len(prefix) /\ SubSeq(s, 1, Len(prefix)) = prefix

ApiPrefix == <<"/", "a", "p", "i">>
AuthPrefix == <<"/", "a", "p", "i", "/", "a", "u", "t", "h">>

\* shouldRateLimit(pathname)
shouldRateLimit(pathname) == StartsWith(pathname, ApiPrefix)

\* The csp array of applySecurityHeaders joined with "; "
Csp ==
    "default-src 'self'; script-src 'self' 'unsafe-inline' 'unsafe-eval'; "
    \o "style-src 'self' 'unsafe-inline' https://fonts.googleapis.com; "
    \o "font-src 'self' https://fonts.gstatic.com data:; "
    \o "img-src 'self' data: https:; connect-src 'self' https:; "
    \o "frame-ancestors 'none'; base-uri 'self'; form-action 'self'"

\* The eight response.headers.set(...) of applySecurityHeaders
SecurityHeaders ==
    ("Content-Security-Policy" :> Csp)
    @@ ("Referrer-Policy" :> "strict-origin-when-cross-origin")
    @@ ("X-Content-Type-Options" :> "nosniff")
    @@ ("X-Frame-Options" :> "DENY")
    @@ ("X-XSS-Protection" :> "0")
    @@ ("Permissions-Policy" :> "geolocation=(), microphone=(), camera=()")
    @@ ("Cross-Origin-Opener-Policy" :> "same-origin")
    @@ ("Cross-Origin-Resource-Policy" :> "same-site")

\* The five CORS headers set for a same-origin API request
CorsHeaders(ownOrigin) ==
    ("Access-Control-Allow-Origin" :> ownOrigin)
    @@ ("Vary" :> "Origin")
    @@ ("Access-Control-Allow-Headers" :> "Content-Type, Authorization, X-Requested-With")
    @@ ("Access-Control-Allow-Methods" :> "GET, POST, PUT, DELETE, OPTIONS")
    @@ ("Access-Control-Max-Age" :> "600")

\* headers.set(name, value) for every name of `set`: later values win
SetAll(headers, set) ==
    [n \in (DOMAIN headers) \cup (DOMAIN set) |->
        IF n \in DOMAIN set THEN set[n] ELSE headers[n]]

\* const origin = req.headers.get("origin") || ""
OriginOf(r) == IF "origin" \in DOMAIN r.headers THEN r.headers["origin"] ELSE ""

\* Every origin treated as the request's own.
SameOrigin_Any(r) == TRUE

\* if (!origin || origin === req.nextUrl.origin)
SameOrigin(r) == OriginOf(r) = "" \/ OriginOf(r) = r.origin

\* The CORS part of applySecurityHeaders
CorsFor(r) ==
    IF StartsWith(r.pathname, ApiPrefix) /\ SameOrigin(r)
    THEN CorsHeaders(r.origin)
    ELSE <<>>

\* The error path left unstamped: a 429 returned as it was built.
applySecurityHeaders_NotOnError(resp, r) ==
    IF resp.status = 429 THEN resp
    ELSE [resp EXCEPT !.headers = SetAll(SetAll(@, SecurityHeaders), CorsFor(r))]

\* applySecurityHeaders(response, req)
applySecurityHeaders(resp, r) ==
    [resp EXCEPT !.headers = SetAll(SetAll(@, SecurityHeaders), CorsFor(r))]

NoBody == [present |-> FALSE]
JsonBody(value) == [present |-> TRUE, value |-> value]

\* NextResponse.json(body, { status, headers })
NextResponseJson(value, status, headers) ==
    [kind |-> "json", status |-> status, body |-> JsonBody(value),
     headers |-> SetAll(headers, "content-type" :> "application/json")]

\* NextResponse.next({ headers }): hand the request on to the route handler
NextResponseNext(headers) ==
    [kind |-> "next", status |-> 200, body |-> NoBody,
     headers |-> SetAll(headers, "x-middleware-next" :> "1")]

\* Another error code in the 429 body.
RateLimitedBody_OtherCode ==
    ("ok" :> FALSE)
    @@ ("error" :> [code |-> "too_many_requests",
                    message |-> "Too many requests, please try again later."])

\* The body of the 429 response
RateLimitedBody ==
    ("ok" :> FALSE)
    @@ ("error" :> [code |-> "rate_limited",
                    message |-> "Too many requests, please try again later."])

\* const preflight = NextResponse.json({}, { status: 204 })
Preflight == NextResponseJson(<<>>, 204, <<>>)

\* req.method === "OPTIONS" && pathname.startsWith("/api")
IsPreflight(r) == r.method = "OPTIONS" /\ StartsWith(r.pathname, ApiPrefix)

\* The authentication sub-path rate limited like any other API path.
IsRateLimited_AuthToo(r) == ~IsPreflight(r) /\ shouldRateLimit(r.pathname)

\* shouldRateLimit(pathname) && !pathname.startsWith("/api/auth"), once the
\* preflight branch has not returned
IsRateLimited(r) ==
    /\ ~IsPreflight(r)
    /\ shouldRateLimit(r.pathname)
    /\ ~StartsWith(r.pathname, AuthPrefix)

\* One bucket per client, whatever the path.
KeyOf_IpOnly(r) == getClientIp(r.headers)

\* const key = `${ip}:${pathname}`
KeyOf(r) == getClientIp(r.headers) \o <<":">> \o r.pathname

\* The rate headers attached to the 429 only.
LimitedResponse_BareWhenAllowed(res) ==
    IF ~res.allowed
    THEN NextResponseJson(RateLimitedBody, 429, buildRateLimitHeaders(res))
    ELSE NextResponseNext(<<>>)

\* A denied request handed on to the route handler with its rate headers.
LimitedResponse_ForwardDenied(res) == NextResponseNext(buildRateLimitHeaders(res))

\* The response of the rate-limited branch for a decision
LimitedResponse(res) ==
    IF ~res.allowed
    THEN NextResponseJson(RateLimitedBody, 429, buildRateLimitHeaders(res))
    ELSE NextResponseNext(buildRateLimitHeaders(res))

\* middleware(req) at clock value t: the response it returns, the store it
\* leaves and the decision it took, if any
middleware(r, store, t) ==
    IF IsPreflight(r)
    THEN [response |-> applySecurityHeaders(Preflight, r),
          store |-> store, result |-> NoResult]
    ELSE IF IsRateLimited(r)
    THEN LET c == consume(store, KeyOf(r), ApiPolicy, t)
         IN  [response |-> applySecurityHeaders(LimitedResponse(c.result), r),
              store |-> c.store,
              result |-> [kind |-> "decision", key |-> KeyOf(r), at |-> t,
                          allowed |-> c.result.allowed,
                          remaining |-> c.result.remaining,
                          limit |-> c.result.limit, reset |-> c.result.reset]]
    ELSE [response |-> applySecurityHeaders(NextResponseNext(<<>>), r),
          store |-> store, result |-> NoResult]

----------------------------------------------------------------------------
(* The limiter driven directly: a caller with one policy, a clock, and     *)
(* consume() calls on a few keys.                                          *)

\* Bounds of the limiter run.
MaxCalls == 5
MaxLimit == 3
MaxCap == 2
Epoch == 5000

\* Clock values at which calls arrive: offsets from the start of the run.
Offsets == {0, 100, 200, 300, 700, 1050, 1100}
Instants == {Epoch + o : o \in Offsets}

Windows == {500, 1000}
Policies ==
    [limit : 1..MaxLimit, windowMs : Windows]
    \cup [limit : 1..MaxLimit, windowMs : Windows, bucketCap : 1..MaxCap]

\* Keys of the direct run: "K" and "J".
Keys == {<<"K">>, <<"J">>}

ClosedWindow == [start |-> 0, n |-> 0, open |-> FALSE]

\* The calls inside the window opened by the first call on a key.
WinAfter(w, key, windowMs, t) ==
    LET next == IF key \notin DOMAIN w THEN [start |-> t, n |-> 1, open |-> TRUE]
                ELSE IF w[key].open /\ t - w[key].start < windowMs
                     THEN [w[key] EXCEPT !.n = @ + 1]
                     ELSE ClosedWindow
    IN  [k \in (DOMAIN w) \cup {key} |-> IF k = key THEN next ELSE w[k]]

\* The calls logged on a key, and the number of calls logged in all.
LogOf(key) == IF key \in DOMAIN log THEN log[key] ELSE <<>>

RECURSIVE SumLen(_, _)
SumLen(f, ks) ==
    IF ks = {} THEN 0
    ELSE LET k == CHOOSE x \in ks : TRUE IN Len(f[k]) + SumLen(f, ks \ {k})

Calls == SumLen(log, DOMAIN log)

Init ==
    /\ now = Epoch
    /\ options \in Policies
    /\ memoryStore = <<>>
    /\ result = NoResult
    /\ log = <<>>
    /\ win = <<>>
    /\ req = NoRequest
    /\ response = NoResponse
    /\ clientIp = NoIp
    /\ tasks = NoTasks

\* Time passes between calls.
Tick ==
    /\ \E t \in Instants : t > now /\ now' = t
    /\ UNCHANGED <<options, memoryStore, result, log, win, req, response, clientIp, tasks>>

\* What one consume(key, options) call does, reading the records of `store`,
\* and what the histories record of it: the decision, and the record before
\* and after.
ConsumeEffectOn(store, key) ==
    LET c == consume(store, key, options, now)
        before == GetOrCreate(store, key)
        after == c.store[key]
    IN  /\ memoryStore' = c.store
        /\ result' = [kind |-> "decision", key |-> key, at |-> now,
                      allowed |-> c.result.allowed,
                      remaining |-> c.result.remaining, limit |-> c.result.limit,
                      reset |-> c.result.reset]
        /\ log' = [k \in (DOMAIN log) \cup {key} |->
                     IF k = key
                     THEN Append(LogOf(key),
                                 [key |-> key, at |-> now,
                                  allowed |-> c.result.allowed,
                                  remaining |-> c.result.remaining,
                                  limit |-> c.result.limit,
                                  reset |-> c.result.reset,
                                  fresh |-> key \notin DOMAIN store,
                                  before |-> before.hits,
                                  prunedBefore |-> before.lastPruneAt,
                                  after |-> after.hits,
                                  prunedAfter |-> after.lastPruneAt])
                     ELSE log[k]]
        /\ win' = WinAfter(win, key, options.windowMs, now)

\* consume() reads the record of the module-level store.
ConsumeEffect(key) == ConsumeEffectOn(memoryStore, key)

\* consume(key, options)
Consume(key) ==
    /\ Calls < MaxCalls
    /\ ConsumeEffect(key)
    /\ UNCHANGED <<now, options, req, response, clientIp, tasks>>

Next == Tick \/ \E key \in Keys : Consume(key)

Spec == Init /\ [][Next]_vars

----------------------------------------------------------------------------
(* The limiter called with an invalid policy (CfgSpec)                     *)

\* Policies with a non-positive limit or a non-positive windowMs.
InvalidPolicies ==
    [limit : {0, -1}, windowMs : Windows]
    \cup [limit : 1..MaxLimit, windowMs : {0, -1000}]

CfgInit ==
    /\ now = Epoch
    /\ options \in InvalidPolicies
    /\ memoryStore = <<>>
    /\ result = NoResult
    /\ log = <<>>
    /\ win = <<>>
    /\ req = NoRequest
    /\ response = NoResponse
    /\ clientIp = NoIp
    /\ tasks = NoTasks

CfgSpec == CfgInit /\ [][Next]_vars

----------------------------------------------------------------------------
(* The limiter with a bucketCap around the limit (CapSpec)                 *)

\* Policies whose bucketCap is just below, at, or just above the limit.
CapPolicies ==
    [limit : {MaxLimit, MaxLimit + 1}, windowMs : Windows,
     bucketCap : {MaxLimit, MaxLimit + 1}]

CapInit ==
    /\ now = Epoch
    /\ options \in CapPolicies
    /\ memoryStore = <<>>
    /\ result = NoResult
    /\ log = <<>>
    /\ win = <<>>
    /\ req = NoRequest
    /\ response = NoResponse
    /\ clientIp = NoIp
    /\ tasks = NoTasks

CapSpec == CapInit /\ [][Next]_vars

----------------------------------------------------------------------------
(* Requests in flight at the same time (ConcSpec)                          *)
(*                                                                         *)
(* middleware() and consume() are synchronous functions without an await: *)
(* the event loop runs each request's handler to completion before it      *)
(* starts the next one.  Requests that have arrived wait in `tasks` and    *)
(* the loop picks them in any order.                                       *)

\* Bound of the concurrent run: the requests in flight.
MaxTasks == 3

TaskIds == 1..MaxTasks

\* The policies of the concurrent run: the default bucketCap, as the
\* middleware calls consume().
ConcPolicies == [limit : 1..(MaxLimit - 1), windowMs : Windows]

\* Clock values of the concurrent run: inside the first window, and past it.
ConcInstants == {Epoch, Epoch + 300, Epoch + 1100}

IdleTask == [pc |-> "idle", key |-> <<>>, arrived |-> 0, ran |-> 0, seen |-> NewRecord]

\* The events so far: arrivals and handler runs.
Events ==
    Cardinality({i \in DOMAIN tasks : tasks[i].pc # "idle"})
    + Cardinality({i \in DOMAIN tasks : tasks[i].pc = "done"})

ConcInit ==
    /\ now = Epoch
    /\ options \in ConcPolicies
    /\ memoryStore = <<>>
    /\ result = NoResult
    /\ log = <<>>
    /\ win = <<>>
    /\ req = NoRequest
    /\ response = NoResponse
    /\ clientIp = NoIp
    /\ tasks = [i \in TaskIds |-> IdleTask]

\* A request on `key` arrives and waits for the event loop.
Arrive(i, key) ==
    /\ tasks[i].pc = "idle"
    /\ \A j \in 1..(i - 1) : tasks[j].pc # "idle"
    /\ tasks' = [tasks EXCEPT ![i] = [pc |-> "pending", key |-> key,
                                       arrived |-> Events + 1, ran |-> 0,
                                       seen |-> NewRecord]]
    /\ UNCHANGED <<now, options, memoryStore, result, log, win, req, response, clientIp>>

\* A handler that yields between reading the record and writing it back: it
\* reads the record in one turn of the loop and decides and writes from what it
\* read in a later one.
Run_Interleaved(i) ==
    \/ /\ tasks[i].pc = "pending"
       /\ tasks' = [tasks EXCEPT ![i].pc = "read",
                                 ![i].seen = GetOrCreate(memoryStore, tasks[i].key)]
       /\ UNCHANGED <<now, options, memoryStore, result, log, win, req, response, clientIp>>
    \/ /\ tasks[i].pc = "read"
       /\ ConsumeEffectOn(StoreSet(memoryStore, tasks[i].key, tasks[i].seen), tasks[i].key)
       /\ tasks' = [tasks EXCEPT ![i].pc = "done", ![i].ran = Events + 1]
       /\ UNCHANGED <<now, options, req, response, clientIp>>

\* The event loop runs the handler of a waiting request: the whole of
\* consume(), from memoryStore.get(key) to the returned LimitResult, in one
\* turn.
Run(i) ==
    /\ tasks[i].pc = "pending"
    /\ ConsumeEffect(tasks[i].key)
    /\ tasks' = [tasks EXCEPT ![i].pc = "done", ![i].ran = Events + 1,
                              ![i].seen = GetOrCreate(memoryStore, tasks[i].key)]
    /\ UNCHANGED <<now, options, req, response, clientIp>>

\* Time passes while requests wait.
ConcTick ==
    /\ \E t \in ConcInstants : t > now /\ now' = t
    /\ UNCHANGED <<options, memoryStore, result, log, win, req, response, clientIp, tasks>>

ConcNext ==
    \/ ConcTick
    \/ \E i \in TaskIds, key \in Keys : Arrive(i, key)
    \/ \E i \in TaskIds : Run(i)

ConcSpec == ConcInit /\ [][ConcNext]_vars

----------------------------------------------------------------------------
(* The middleware driven by requests (MwSpec)                              *)

\* Bound of the middleware run: the hits the store may hold in all.
MaxStoreHits == 62

RECURSIVE StoreHits(_, _)
StoreHits(store, ks) ==
    IF ks = {} THEN 0
    ELSE LET k == CHOOSE x \in ks : TRUE
         IN  Len(store[k].hits) + StoreHits(store, ks \ {k})

\* Clock values at which requests arrive: the start of the run and one full
\* window later.
MwInstants == {Epoch, Epoch + API_WINDOW_MS}

OwnOrigin == "https://connecto.example"
ForeignOrigin == "https://elsewhere.example"

\* "/api/chat", "/api/auth/session", "/about"
ChatPath == <<"/", "a", "p", "i", "/", "c", "h", "a", "t">>
AuthPath == <<"/", "a", "p", "i", "/", "a", "u", "t", "h", "/", "s", "e", "s", "s", "i", "o", "n">>
PagePath == <<"/", "a", "b", "o", "u", "t">>
Paths == {ChatPath, AuthPath, PagePath}

Methods == {"GET", "OPTIONS"}

\* "1.2.3.4, 5.6.6.6" and its first entry "1.2.3.4"
XffTwo == <<"1", ".", "2", ".", "3", ".", "4", ",", " ", "5", ".", "6", ".", "6", ".", "6">>
XffTwoFirst == <<"1", ".", "2", ".", "3", ".", "4">>

Absent == [n \in {} |-> ""]
NoOrigin == Absent
Own == "origin" :> OwnOrigin
Foreign == "origin" :> ForeignOrigin
Xff == "x-forwarded-for" :> XffTwo

Request(m, p, h) ==
    [kind |-> "request", method |-> m, pathname |-> p, origin |-> OwnOrigin,
     headers |-> h]

\* The requests of the run: every branch of the middleware, with the Origin
\* header absent, own and foreign, and with and without a forwarded address.
Requests ==
    { Request("GET", ChatPath, NoOrigin),
      Request("GET", ChatPath, Own @@ Xff),
      Request("GET", ChatPath, Foreign @@ Xff),
      Request("OPTIONS", ChatPath, Own),
      Request("OPTIONS", ChatPath, Foreign @@ Xff),
      Request("GET", AuthPath, NoOrigin),
      Request("GET", AuthPath, Foreign),
      Request("GET", PagePath, Own),
      Request("OPTIONS", PagePath, Foreign) }

MwInit ==
    /\ now = Epoch
    /\ options = ApiPolicy
    /\ memoryStore = <<>>
    /\ result = NoResult
    /\ log = <<>>
    /\ win = <<>>
    /\ req = NoRequest
    /\ response = NoResponse
    /\ clientIp = NoIp
    /\ tasks = NoTasks

MwTick ==
    /\ \E t \in MwInstants : t > now /\ now' = t
    /\ UNCHANGED <<options, memoryStore, result, log, win, req, response, clientIp, tasks>>

\* What middleware(req) does: the response, the store and the decision.
MiddlewareEffect(r) ==
    /\ LET m == middleware(r, memoryStore, now)
       IN  /\ memoryStore' = m.store
           /\ response' = m.response
           /\ result' = m.result
    /\ req' = r
    /\ win' = IF IsRateLimited(r)
              THEN WinAfter(win, KeyOf(r), API_WINDOW_MS, now)
              ELSE win
    /\ UNCHANGED <<now, options, log, clientIp, tasks>>

\* middleware(req)
Middleware(r) ==
    /\ IsRateLimited(r) => StoreHits(memoryStore, DOMAIN memoryStore) < MaxStoreHits
    /\ MiddlewareEffect(r)

MwNext == MwTick \/ \E r \in Requests : Middleware(r)

MwSpec == MwInit /\ [][MwNext]_vars

----------------------------------------------------------------------------
(* getClientIp applied to header sets (IpSpec)                             *)

\* x-forwarded-for values, each with the first comma-separated entry it
\* holds once trimmed: "1.2.3.4, 5.6.6.6", "1.2.3.4 ,5.6.6.6", "1.2.3.4",
\* ",5.6.6.6", ", 5.6.6.6" and "".
XffCases ==
    { [value |-> XffTwo, first |-> XffTwoFirst],
      [value |-> <<"1", ".", "2", ".", "3", ".", "4", " ", ",", "5", ".", "6", ".", "6", ".", "6">>,
       first |-> XffTwoFirst],
      [value |-> XffTwoFirst, first |-> XffTwoFirst],
      [value |-> <<",", "5", ".", "6", ".", "6", ".", "6">>, first |-> <<>>],
      [value |-> <<",", " ", "5", ".", "6", ".", "6", ".", "6">>, first |-> <<>>],
      [value |-> <<" ">>, first |-> <<>>],
      [value |-> <<" ", ",", "\t">>, first |-> <<>>],
      [value |-> <<>>, first |-> <<>>] }

\* "9.9.9.9", "10.0.0.1", "8.8.8.8", "8.8.4.4"
RealIpValues ==
    {<<>>, <<" ">>, <<"9", ".", "9", ".", "9", ".", "9">>, <<"1", "0", ".", "0", ".", "0", ".", "1">>}
VercelIpValues ==
    {<<>>, <<" ">>, <<"8", ".", "8", ".", "8", ".", "8">>, <<"8", ".", "8", ".", "4", ".", "4">>}

HeaderChoices(name, values) == {Absent} \cup {name :> v : v \in values}

IpHeaderSets ==
    { x @@ r @@ v :
        x \in HeaderChoices("x-forwarded-for", {c.value : c \in XffCases}),
        r \in HeaderChoices("x-real-ip", RealIpValues),
        v \in HeaderChoices("x-vercel-forwarded-for", VercelIpValues) }

IpInit ==
    /\ now = Epoch
    /\ options = ApiPolicy
    /\ memoryStore = <<>>
    /\ result = NoResult
    /\ log = <<>>
    /\ win = <<>>
    /\ req = NoRequest
    /\ response = NoResponse
    /\ clientIp = NoIp
    /\ tasks = NoTasks

\* getClientIp(headers)
Resolve(headers) ==
    /\ req' = [kind |-> "headers", headers |-> headers]
    /\ clientIp' = getClientIp(headers)
    /\ UNCHANGED <<now, options, memoryStore, result, log, win, response, tasks>>

IpNext == \E headers \in IpHeaderSets : Resolve(headers)

IpSpec == IpInit /\ [][IpNext]_vars

----------------------------------------------------------------------------
(* The middleware serving several identities and paths (IsoSpec)           *)

\* Bound of the run: the hits the store may hold in all.
MaxIsoHits == 4

\* "/api/posts"
PostsPath == <<"/", "a", "p", "i", "/", "p", "o", "s", "t", "s">>

\* Requests of two identities, "0.0.0.0" and "1.2.3.4", on two limited paths,
\* and one request of each branch that takes no decision.
IsoRequests ==
    { Request("GET", ChatPath, NoOrigin),
      Request("GET", ChatPath, Xff),
      Request("GET", PostsPath, NoOrigin),
      Request("GET", PostsPath, Xff),
      Request("OPTIONS", PostsPath, NoOrigin),
      Request("GET", AuthPath, Xff),
      Request("GET", PagePath, NoOrigin) }

IsoInit ==
    /\ now = Epoch
    /\ options = ApiPolicy
    /\ memoryStore = <<>>
    /\ result = NoResult
    /\ log = <<>>
    /\ win = <<>>
    /\ req = NoRequest
    /\ response = NoResponse
    /\ clientIp = NoIp
    /\ tasks = NoTasks

IsoTick ==
    /\ \E t \in MwInstants : t > now /\ now' = t
    /\ UNCHANGED <<options, memoryStore, result, log, win, req, response, clientIp, tasks>>

\* middleware(req)
IsoMiddleware(r) ==
    /\ IsRateLimited(r) => StoreHits(memoryStore, DOMAIN memoryStore) < MaxIsoHits
    /\ MiddlewareEffect(r)

IsoNext == IsoTick \/ \E r \in IsoRequests : IsoMiddleware(r)

IsoSpec == IsoInit /\ [][IsoNext]_vars

----------------------------------------------------------------------------
(* Properties of the limiter run (Spec)                                    *)

DefaultCap == "bucketCap" \notin DOMAIN options

\* The first k calls on a key all lie inside the window its first call opened.
InFirstWindow(key, k) ==
    /\ k \in 1..Len(LogOf(key))
    /\ log[key][k].at - log[key][1].at < options.windowMs

\* C1: with the default bucketCap, among the calls on a fresh key that fall
\* inside one window, the k-th call is allowed if and only if k <= limit.
C1_BoundaryAdmission ==
    DefaultCap =>
        \A key \in DOMAIN log : \A k \in 1..Len(log[key]) :
            InFirstWindow(key, k) => (log[key][k].allowed <=> k <= options.limit)

\* C1 witness: call number limit was admitted and call number limit+1 denied,
\* both inside the window.
C1_Witness ==
    /\ DefaultCap
    /\ \E key \in DOMAIN log :
          /\ InFirstWindow(key, options.limit + 1)
          /\ log[key][options.limit].allowed
          /\ ~log[key][options.limit + 1].allowed

\* C3 (as claimed): whenever at least windowMs pass between two successive
\* calls on a key, the later call is allowed with remaining = limit - 1.
C3_FreshAfterWindow ==
    \A key \in DOMAIN log : \A k \in 2..Len(log[key]) :
        log[key][k].at - log[key][k - 1].at >= options.windowMs
            => /\ log[key][k].allowed
               /\ log[key][k].remaining = options.limit - 1

\* The scenario of C4: limit 3, window 1000 ms, calls on one fresh key at
\* offsets 0, 100, 200, 300 and 1050 from the first.
ScenarioOffsets == <<0, 100, 200, 300, 1050>>
ScenarioPolicy == [limit |-> 3, windowMs |-> 1000]

InScenario(key, n) ==
    /\ options = ScenarioPolicy
    /\ n \in 1..Len(LogOf(key))
    /\ n <= Len(ScenarioOffsets)
    /\ \A i \in 1..n : log[key][i].at = log[key][1].at + ScenarioOffsets[i]

Outcome(e) == <<e.allowed, e.remaining, e.reset>>

\* What the code answers in the scenario: allowed/remaining/reset per call.
ScenarioOutcomes ==
    << <<TRUE, 2, 1>>, <<TRUE, 1, 1>>, <<TRUE, 0, 1>>, <<FALSE, 0, 1>>, <<FALSE, 0, 1>> >>

EvictionOffsets == <<0, 700, 1100>>

InEvictionScenario(key) ==
    /\ options.windowMs = 1000
    /\ Len(LogOf(key)) = Len(EvictionOffsets)
    /\ \A i \in 1..Len(EvictionOffsets) :
          log[key][i].at = log[key][1].at + EvictionOffsets[i]

\* C13 (as claimed): with windowMs = 1000 and calls on a key at 0 and 700, the
\* call at 1100 evicts the hit at 0 and keeps the hit at 700: the record then
\* holds exactly the hits at 700 and 1100.
C13_EvictsAt1100 ==
    \A key \in DOMAIN log :
        InEvictionScenario(key) =>
            memoryStore[key].hits = <<log[key][2].at, log[key][3].at>>

\* The times of the first k calls on a key, in call order.
Times(key, k) == [i \in 1..k |-> log[key][i].at]

\* The newest n entries of a sequence.
Newest(seq, n) == SubSeq(seq, Len(seq) - n + 1, Len(seq))

\* The hits of a sequence that lie inside the trailing window ending at t.
InWindow(hits, t) == {i \in 1..Len(hits) : hits[i] > t - options.windowMs}

\* C14: after every call with a bucketCap >= 1 the key stores at most bucketCap
\* hits; the stored hits are the newest calls on the key, the current one
\* included, and when the hits still inside the window already fill the cap
\* exactly bucketCap of them are kept.
C14_BucketCap ==
    BucketCapOf(options) >= 1 =>
        \A key \in DOMAIN log : \A k \in 1..Len(log[key]) :
            LET e == log[key][k]
                cap == BucketCapOf(options)
            IN  /\ Len(e.after) \in 1..cap
                /\ e.after = Newest(Times(key, k), Len(e.after))
                /\ Cardinality(InWindow(e.before, e.at)) >= cap => Len(e.after) = cap

\* C14 witness: with a bucketCap below the limit, a key has had more calls
\* inside one window than the cap and stores exactly the newest bucketCap.
C14_Witness ==
    /\ ~DefaultCap
    /\ options.bucketCap < options.limit
    /\ \E key \in DOMAIN log :
          LET k == Len(log[key])
          IN  /\ k > options.bucketCap
              /\ InFirstWindow(key, k)
              /\ memoryStore[key].hits = Newest(Times(key, k), options.bucketCap)
              /\ memoryStore[key].hits[1] # log[key][1].at

\* The same policy without a bucketCap.
Uncapped(opts) == [limit |-> opts.limit, windowMs |-> opts.windowMs]

\* The limiter without a bucketCap run side by side: consume() with the
\* uncapped policy replayed over the first k calls logged on a key.
RECURSIVE UncappedRun(_, _)
UncappedRun(key, k) ==
    IF k = 0 THEN [store |-> <<>>, result |-> NoResult]
    ELSE consume(UncappedRun(key, k - 1).store, key, Uncapped(options), log[key][k].at)

\* C15 (as claimed): every call that consume() allows under the policy's
\* bucketCap is also allowed by the same limiter without a bucketCap, run over
\* the same timed calls.
C15_CapNeverAdmitsMore ==
    \A key \in DOMAIN log : \A k \in 1..Len(log[key]) :
        log[key][k].allowed => UncappedRun(key, k).result.allowed

\* The calls on a key, the k-th included, whose time lies inside the trailing
\* window of length windowMs that ends at the k-th call.
CallsInWindow(key, k) ==
    {j \in 1..k : log[key][j].at > log[key][k].at - options.windowMs}

\* C17 (as claimed): on every call the count used for the decision, the number
\* of hits stored after the call, is the number of calls on the key inside the
\* trailing window, and a call is denied only if more than limit calls lie in
\* that window.
C17_ExactSlidingWindow ==
    \A key \in DOMAIN log : \A k \in 1..Len(log[key]) :
        /\ Len(log[key][k].after) = Cardinality(CallsInWindow(key, k))
        /\ ~log[key][k].allowed => Cardinality(CallsInWindow(key, k)) > options.limit

\* A prune pass is due at a logged call: the record was never pruned, or
\* strictly more than 500 ms have passed since its last prune.
PruneDue(e) == e.prunedBefore = 0 \/ e.at - e.prunedBefore > PruneThrottleMs

\* A logged call left the last-prune timestamp as it found it.
NoPrunePass(e) == e.prunedAfter = e.prunedBefore

\* What the call stores when no hit is evicted by age: the hits it found and
\* its own, trimmed to the newest bucketCap.
KeptAll(e) ==
    LET pushed == Append(e.before, e.at)
        cap == BucketCapOf(options)
    IN  Newest(pushed, IF Len(pushed) > cap THEN cap ELSE Len(pushed))

\* C18: a call runs a prune pass exactly when the record was never pruned or
\* strictly more than 500 ms have passed since its last prune.  A prune pass
\* sets the last-prune timestamp to the time of the call and leaves no hit at or
\* before now - windowMs; a call without one leaves the timestamp alone and
\* evicts nothing by age.
C18_PruneThrottle ==
    \A key \in DOMAIN log : \A k \in 1..Len(log[key]) :
        LET e == log[key][k]
        IN  /\ PruneDue(e) <=> ~NoPrunePass(e)
            /\ PruneDue(e) =>
                  /\ e.prunedAfter = e.at
                  /\ \A i \in 1..Len(e.after) : e.after[i] > e.at - options.windowMs
            /\ ~PruneDue(e) => e.after = KeptAll(e)

\* C18 witness: on one key, a call made exactly 500 ms after the last prune
\* kept a hit that had already left the window, and a later call, more than
\* 500 ms after that prune, evicted it.
C18_Witness ==
    /\ DefaultCap
    /\ \E key \in DOMAIN log : \E k \in 2..Len(log[key]) : \E m \in 2..(k - 1) :
          /\ log[key][m].at - log[key][m].prunedBefore = PruneThrottleMs
          /\ NoPrunePass(log[key][m])
          /\ log[key][m].after[1] <= log[key][m].at - options.windowMs
          /\ PruneDue(log[key][k])
          /\ log[key][k].prunedAfter = log[key][k].at
          /\ log[key][k].after[1] > log[key][m].after[1]

\* The hits the prune pass of a logged call leaves, before the call's own hit
\* is pushed.
PrunePass(e) ==
    pruneOldHits([hits |-> e.before, lastPruneAt |-> e.prunedBefore],
                 options.windowMs, e.at).hits

\* The prune pass of a logged call removed a leading prefix of the hits it
\* found and kept the rest in their order, and the record stored by the call
\* is made of the kept hits and the call's own.
PrefixOnly(e) ==
    /\ Len(PrunePass(e)) <= Len(e.before)
    /\ PrunePass(e) = Newest(e.before, Len(PrunePass(e)))
    /\ Len(e.after) <= Len(PrunePass(e)) + 1
    /\ e.after = Newest(Append(PrunePass(e), e.at), Len(e.after))

\* The number of hits the prune pass of a logged call removed.
Evicted(e) == Len(e.before) - Len(PrunePass(e))

\* C19 (as claimed): a prune pass removes only a leading prefix, only hits
\* strictly older than now - windowMs; a hit at exactly now - windowMs and
\* every newer hit is retained, in order.
C19_AsClaimed ==
    \A key \in DOMAIN log : \A k \in 1..Len(log[key]) :
        LET e == log[key][k]
        IN  PruneDue(e) =>
              /\ PrefixOnly(e)
              /\ \A i \in 1..Len(e.before) :
                    i <= Evicted(e) <=> e.before[i] < e.at - options.windowMs

\* C19 (amended): a prune pass removes only a leading prefix, exactly the hits
\* at or before now - windowMs: a hit at exactly now - windowMs is evicted, and
\* every newer hit is retained, in order.
C19_PrefixEviction ==
    \A key \in DOMAIN log : \A k \in 1..Len(log[key]) :
        LET e == log[key][k]
        IN  PruneDue(e) =>
              /\ PrefixOnly(e)
              /\ \A i \in 1..Len(e.before) :
                    i <= Evicted(e) <=> e.before[i] <= e.at - options.windowMs

\* C19 witness: a prune pass found a hit at exactly now - windowMs and a newer
\* one, evicted the first and kept the second.
C19_Witness ==
    \E key \in DOMAIN log : \E k \in 1..Len(log[key]) :
        LET e == log[key][k]
        IN  /\ PruneDue(e)
            /\ Len(e.before) >= 2
            /\ e.before[1] = e.at - options.windowMs
            /\ Evicted(e) = 1
            /\ PrunePass(e)[1] = e.before[2]
            /\ e.after[1] = e.before[2]

\* The timestamps of a hit sequence are in non-decreasing order.
NonDecreasing(hits) == \A i \in 1..(Len(hits) - 1) : hits[i] <= hits[i + 1]

\* C20: the clock never going backwards, the hits of every record of the store
\* are in non-decreasing time order, whatever calls, prune passes and bucketCap
\* trims came before.
C20_HitsOrdered ==
    \A key \in DOMAIN memoryStore : NonDecreasing(memoryStore[key].hits)

\* C20 witness: a record holds hits of different times after one of the calls
\* on its key trimmed to the bucketCap and another evicted hits by age.
C20_Witness ==
    /\ ~DefaultCap
    /\ \E key \in DOMAIN log :
          /\ Len(memoryStore[key].hits) >= 2
          /\ memoryStore[key].hits[1] < memoryStore[key].hits[2]
          /\ \E m \in 1..Len(log[key]) :
                ~PruneDue(log[key][m]) /\ Len(log[key][m].after) <= Len(log[key][m].before)
          /\ \E k \in 1..Len(log[key]) :
                PruneDue(log[key][k]) /\ Evicted(log[key][k]) >= 1

\* C21: every decision carries the policy's limit; its count is the number of
\* hits stored after the call, the call's own hit among them; remaining is
\* limit - count when the call is allowed and 0 when it is denied, never
\* negative, and at most limit - 1 for an allowed call.
C21_DecisionFields ==
    \A key \in DOMAIN log : \A k \in 1..Len(log[key]) :
        LET e == log[key][k]
            count == Len(e.after)
        IN  /\ e.limit = options.limit
            /\ count >= 1 /\ e.after[count] = e.at
            /\ e.allowed => e.remaining = options.limit - count
            /\ e.allowed => e.remaining <= options.limit - 1
            /\ ~e.allowed => e.remaining = 0
            /\ e.remaining >= 0

\* C21 witness: on one key a first call was allowed with remaining = limit - 1,
\* a later one allowed with remaining 0 and a later one still denied with
\* remaining 0, under a limit of at least 2.
C21_Witness ==
    /\ options.limit >= 2
    /\ \E key \in DOMAIN log : \E k \in 3..Len(log[key]) :
          /\ log[key][1].allowed /\ log[key][1].remaining = options.limit - 1
          /\ log[key][k - 1].allowed /\ log[key][k - 1].remaining = 0
          /\ ~log[key][k].allowed /\ log[key][k].remaining = 0

\* The time, in ms, until the oldest hit stored by a logged call leaves the
\* window; negative when it has left already.
UntilOldestExpires(e) == e.after[1] + options.windowMs - e.at

\* n is x / 1000 rounded up to a whole number and floored at 0.
IsCeilSeconds(n, x) ==
    /\ n \in Nat
    /\ n * MsPerSecond >= x
    /\ n > 0 => (n - 1) * MsPerSecond < x

\* C22: the reset of every decision is (oldest stored hit + windowMs - now)
\* / 1000 rounded up and floored at 0: a whole number of seconds, not negative
\* and not above windowMs / 1000 rounded up.
C22_Reset ==
    \A key \in DOMAIN log : \A k \in 1..Len(log[key]) :
        LET e == log[key][k]
        IN  /\ IsCeilSeconds(e.reset, UntilOldestExpires(e))
            /\ \E top \in 0..e.reset + 1 :
                  IsCeilSeconds(top, options.windowMs) /\ e.reset <= top

\* C22 witness: on one key a decision rounded a fraction of a second up to
\* reset = 1, and a later one, its oldest hit out of the window, had reset = 0.
C22_Witness ==
    \E key \in DOMAIN log : \E k \in 2..Len(log[key]) : \E m \in 1..(k - 1) :
        /\ UntilOldestExpires(log[key][m]) \in 1..(MsPerSecond - 1)
        /\ log[key][m].reset = 1
        /\ UntilOldestExpires(log[key][k]) <= 0
        /\ log[key][k].reset = 0

\* The calls on a key, among the first k, that were allowed.
AllowedCalls(key, k) == {j \in 1..k : log[key][j].allowed}

\* C25 (as claimed): every stored hit is the time of an allowed call: a denied
\* call adds no hit to the record, and a record never holds more hits than
\* calls were allowed on its key.
C25_OnlyAcceptedStored ==
    \A key \in DOMAIN log : \A k \in 1..Len(log[key]) :
        LET e == log[key][k]
        IN  /\ ~e.allowed => Len(e.after) <= Len(e.before)
            /\ Len(e.after) <= Cardinality(AllowedCalls(key, k))
            /\ \A i \in 1..Len(e.after) :
                  \E j \in AllowedCalls(key, k) : log[key][j].at = e.after[i]

\* Every hit the k-th call on a key found stored was evicted by its prune pass.
EvictedAll(key, k) ==
    /\ PruneDue(log[key][k])
    /\ Len(log[key][k].before) >= 1
    /\ Evicted(log[key][k]) = Len(log[key][k].before)

\* Every hit of the record of a key has left the window.
AllExpired(key) ==
    \A i \in 1..Len(memoryStore[key].hits) :
        memoryStore[key].hits[i] <= now - options.windowMs

\* C27: the store holds a record for exactly the keys consume() has been
\* called on, and no step removes a key: the set of keys only grows.
C27_KeysOnlyGrow ==
    /\ [](DOMAIN memoryStore = {key \in DOMAIN log : Len(log[key]) >= 1})
    /\ [][DOMAIN memoryStore \subseteq DOMAIN memoryStore']_vars

\* C27 witness: a call on one key evicted every hit it found, while the
\* record of another key, all its hits out of the window, is still in the store.
C27_Witness ==
    \E key, other \in DOMAIN memoryStore :
        /\ key # other
        /\ EvictedAll(key, Len(log[key]))
        /\ AllExpired(other)

----------------------------------------------------------------------------
(* Properties of the limiter with a bucketCap around the limit (CapSpec)   *)

\* The calls on a key, the k-th included, made no longer than windowMs before
\* the k-th call: the widest reading of the calls inside its window.
CallsInClosedWindow(key, k) ==
    {j \in 1..k : log[key][j].at >= log[key][k].at - options.windowMs}

\* The true in-window call count has stayed below the bucketCap up to the
\* k-th call on the key.
CountBelowCap(key, k) ==
    \A j \in 1..k : Cardinality(CallsInClosedWindow(key, j)) < BucketCapOf(options)

\* C26 (as claimed): on a key whose true in-window call count stays below the
\* bucketCap, every decision is the one the same limiter takes without a
\* bucketCap over the same timed calls; and with a bucketCap below the limit
\* no call is denied.
C26_CapKeepsOutcome ==
    \A key \in DOMAIN log : \A k \in 1..Len(log[key]) :
        /\ CountBelowCap(key, k) =>
              log[key][k].allowed = UncappedRun(key, k).result.allowed
        /\ BucketCapOf(options) < options.limit => log[key][k].allowed

----------------------------------------------------------------------------
(* Properties of the limiter called with an invalid policy (CfgSpec)       *)

\* C11 (as claimed): consume() called with a non-positive limit or a
\* non-positive windowMs returns no decision and creates or changes no record
\* of the store.
C11_FailFast ==
    (options.limit <= 0 \/ options.windowMs <= 0) =>
        /\ result.kind # "decision"
        /\ DOMAIN memoryStore = {}

----------------------------------------------------------------------------
(* Properties of the concurrent run (ConcSpec)                             *)

\* The calls on a key admitted inside the trailing window that ends at its
\* k-th call.
AdmittedIn(key, k) ==
    {j \in 1..k : /\ log[key][j].allowed
                  /\ log[key][k].at - log[key][j].at < options.windowMs}

\* Two requests that were in flight at the same time: each arrived before the
\* other's handler ran.
Overlapping(i, j) ==
    /\ i # j
    /\ tasks[i].pc = "done" /\ tasks[j].pc = "done"
    /\ tasks[i].key = tasks[j].key
    /\ tasks[i].arrived < tasks[j].ran
    /\ tasks[j].arrived < tasks[i].ran

\* C12: whatever the order in which the requests in flight are served, every
\* call on a key reads the record the previous call on that key wrote, no two
\* calls inside the window opened by the first observe the same count of
\* stored hits, and the calls admitted on a key inside one window never
\* outnumber limit.
C12_Atomic ==
    \A key \in DOMAIN log :
        /\ \A k \in 2..Len(log[key]) : log[key][k].before = log[key][k - 1].after
        /\ \A j \in 1..Len(log[key]) : \A i \in 1..(j - 1) :
               InFirstWindow(key, j) =>
                   Len(log[key][i].before) # Len(log[key][j].before)
        /\ \A k \in 1..Len(log[key]) :
               Cardinality(AdmittedIn(key, k)) <= options.limit

\* C12 witness: two requests on one key were in flight at the same time, the
\* one that arrived later was served first, and the key has had limit + 1 calls
\* inside one window, the last of them denied.
C12_Witness ==
    /\ \E i, j \in DOMAIN tasks :
          /\ Overlapping(i, j)
          /\ tasks[i].arrived < tasks[j].arrived
          /\ tasks[j].ran < tasks[i].ran
          /\ InFirstWindow(tasks[i].key, options.limit + 1)
          /\ ~log[tasks[i].key][options.limit + 1].allowed
          /\ Cardinality(AdmittedIn(tasks[i].key, options.limit + 1)) = options.limit

----------------------------------------------------------------------------
(* Properties of the limiter run: admission and reset (Spec)               *)

\* C28: under a policy whose bucketCap is above its limit, the calls allowed on
\* a key inside any interval shorter than windowMs never outnumber limit,
\* whatever the timing of the calls and whether or not they pruned.
C28_NeverOverAdmits ==
    BucketCapOf(options) > options.limit =>
        \A key \in DOMAIN log : \A k \in 1..Len(log[key]) :
            Cardinality(AdmittedIn(key, k)) <= options.limit

\* C28 witness: under an explicit bucketCap above the limit, limit calls were
\* allowed on a key inside one window, a call that did not prune among them,
\* and a further call inside that window was denied.
C28_Witness ==
    /\ ~DefaultCap
    /\ BucketCapOf(options) > options.limit
    /\ \E key \in DOMAIN log : \E k \in 2..Len(log[key]) :
          /\ ~log[key][k].allowed
          /\ ~PruneDue(log[key][k])
          /\ Cardinality(AdmittedIn(key, k)) = options.limit

\* C30 (as claimed): a denied call never carries reset = 0, and when the next
\* call on its key comes no sooner than the advertised reset, in seconds, after
\* the denial, that call is allowed.
C30_ResetSufficient ==
    \A key \in DOMAIN log : \A k \in 1..Len(log[key]) :
        ~log[key][k].allowed =>
            /\ log[key][k].reset >= 1
            /\ (/\ k < Len(log[key])
                /\ log[key][k + 1].at - log[key][k].at
                      >= log[key][k].reset * MsPerSecond)
                  => log[key][k + 1].allowed

----------------------------------------------------------------------------
(* Properties of the middleware run (MwSpec)                               *)

Handled == req.kind = "request"

\* The request is on an API-prefixed path.
OnApi == StartsWith(req.pathname, <<"/", "a", "p", "i">>)

\* The request is a non-OPTIONS request on an API-prefixed path that is not
\* under the authentication sub-path.
Limited ==
    /\ req.method # "OPTIONS"
    /\ OnApi
    /\ ~StartsWith(req.pathname, <<"/", "a", "p", "i", "/", "a", "u", "t", "h">>)

\* The client identity of the request: the forwarded address when the request
\* carries one, the sentinel otherwise.
IdentityOfReq ==
    IF "x-forwarded-for" \in DOMAIN req.headers
    THEN <<"1", ".", "2", ".", "3", ".", "4">>
    ELSE <<"0", ".", "0", ".", "0", ".", "0">>

BucketOfReq == IdentityOfReq \o <<":">> \o req.pathname

Denied == response.status = 429
Forwarded == response.kind = "next"

\* C2: a non-OPTIONS request on an API-prefixed path outside the
\* authentication sub-path takes a decision with limit 60 and window 60000 ms
\* on the key "<identity>:<path>"; of the requests on one key inside the
\* minute its first request opened, the first 60 are forwarded and every
\* further one gets 429.
C2_MiddlewarePolicy ==
    (Handled /\ Limited) =>
        /\ result.kind = "decision"
        /\ result.key = BucketOfReq
        /\ result.limit = 60
        /\ win[BucketOfReq].open =>
              /\ win[BucketOfReq].n = 1 => result.reset * 1000 = 60000
              /\ Forwarded <=> win[BucketOfReq].n <= 60
              /\ Denied <=> win[BucketOfReq].n > 60

\* C2 witness: the 61st request on a key inside the minute was answered 429.
C2_Witness ==
    /\ Handled /\ Limited
    /\ win[BucketOfReq].open /\ win[BucketOfReq].n = 61
    /\ Denied

SecurityHeaderNames ==
    { "Content-Security-Policy", "Referrer-Policy", "X-Content-Type-Options",
      "X-Frame-Options", "X-XSS-Protection", "Permissions-Policy",
      "Cross-Origin-Opener-Policy", "Cross-Origin-Resource-Policy" }

\* C5: every response the middleware returns carries the eight security
\* headers with their fixed values.
C5_SecurityHeaders ==
    Handled =>
        \A n \in SecurityHeaderNames :
            /\ n \in DOMAIN response.headers
            /\ response.headers[n] = SecurityHeaders[n]

\* C5 witness: a 429 was returned, and it carries the security headers.
C5_Witness ==
    /\ Handled /\ Denied
    /\ SecurityHeaderNames \subseteq DOMAIN response.headers

RateHeaderNames == {"RateLimit-Limit", "RateLimit-Remaining", "RateLimit-Reset"}

\* The response carries the three rate headers with the values of the decision.
CarriesDecision ==
    /\ result.kind = "decision"
    /\ RateHeaderNames \subseteq DOMAIN response.headers
    /\ response.headers["RateLimit-Limit"] = "60"
    /\ response.headers["RateLimit-Remaining"] = String(result.remaining)
    /\ response.headers["RateLimit-Reset"] = String(result.reset)

C7_Denial ==
    Handled =>
        /\ Denied <=> (result.kind = "decision" /\ ~result.allowed)
        /\ Denied =>
              /\ response.kind = "json"
              /\ response.body.present
              /\ DOMAIN response.body.value = {"ok", "error"}
              /\ response.body.value["ok"] = FALSE
              /\ DOMAIN response.body.value["error"] = {"code", "message"}
              /\ response.body.value["error"].code = "rate_limited"
              /\ response.body.value["error"].message \in STRING
              /\ response.headers["RateLimit-Remaining"] = "0"

\* C7 witness: a denial was answered.
C7_Witness == Handled /\ Denied /\ result.kind = "decision" /\ ~result.allowed

\* C8 (as claimed): an OPTIONS request on an API-prefixed path is answered by
\* the middleware itself with status 204 and an empty body.
C8_Preflight ==
    (Handled /\ req.method = "OPTIONS" /\ OnApi) =>
        /\ response.status = 204
        /\ ~Forwarded
        /\ ~response.body.present

CorsHeaderNames ==
    { "Access-Control-Allow-Origin", "Vary", "Access-Control-Allow-Headers",
      "Access-Control-Allow-Methods", "Access-Control-Max-Age" }

OriginAbsentOrOwn ==
    \/ "origin" \notin DOMAIN req.headers
    \/ req.headers["origin"] = req.origin

\* C9: on an API-prefixed path, a request without Origin or with its own
\* origin gets the five CORS headers, Access-Control-Allow-Origin being its
\* own origin; a request with a foreign Origin gets none of the five.
C9_Cors ==
    (Handled /\ OnApi) =>
        IF OriginAbsentOrOwn
        THEN /\ CorsHeaderNames \subseteq DOMAIN response.headers
             /\ response.headers["Access-Control-Allow-Origin"] = req.origin
             /\ response.headers["Vary"] = "Origin"
        ELSE CorsHeaderNames \cap DOMAIN response.headers = {}

\* C9 witness: a foreign-origin request was denied and its 429 carries no
\* CORS header, after the same path had answered own-origin requests.
C9_Witness ==
    /\ Handled /\ OnApi /\ Denied
    /\ ~OriginAbsentOrOwn
    /\ "Access-Control-Allow-Origin" \notin DOMAIN response.headers

----------------------------------------------------------------------------
(* Properties of getClientIp (IpSpec)                                      *)

Resolved == req.kind = "headers"

Given(name) == name \in DOMAIN req.headers /\ req.headers[name] # <<>>

\* The trimmed first entry of the x-forwarded-for value of the request.
FirstOfXff ==
    (CHOOSE c \in XffCases : c.value = req.headers["x-forwarded-for"]).first

\* x-real-ip, else x-vercel-forwarded-for, else "0.0.0.0"
LowerPriorityIp ==
    IF Given("x-real-ip") THEN req.headers["x-real-ip"]
    ELSE IF Given("x-vercel-forwarded-for") THEN req.headers["x-vercel-forwarded-for"]
    ELSE <<"0", ".", "0", ".", "0", ".", "0">>

\* C10 (as claimed): whenever x-forwarded-for is present the identity is its
\* trimmed first entry, and only otherwise a lower-priority header or the
\* sentinel.
C10_AsClaimed ==
    Resolved =>
        clientIp = IF Given("x-forwarded-for") THEN FirstOfXff ELSE LowerPriorityIp

\* C10 (amended): the identity is the trimmed first entry of x-forwarded-for
\* when that header is present and that entry is not empty; otherwise (the
\* header absent, empty, or starting with an empty entry) it is x-real-ip,
\* else x-vercel-forwarded-for, else "0.0.0.0".
C10_Priority ==
    Resolved =>
        clientIp = IF Given("x-forwarded-for") /\ FirstOfXff # <<>>
                   THEN FirstOfXff
                   ELSE LowerPriorityIp

\* C10 witness: "1.2.3.4, 5.6.6.6" resolved to "1.2.3.4" although x-real-ip
\* and x-vercel-forwarded-for were given too.
C10_Witness ==
    /\ Resolved
    /\ Given("x-forwarded-for") /\ Given("x-real-ip") /\ Given("x-vercel-forwarded-for")
    /\ req.headers["x-forwarded-for"] = XffTwo
    /\ clientIp = <<"1", ".", "2", ".", "3", ".", "4">>

\* The x-forwarded-for value of the request is present, not empty, and its
\* first entry is empty or blank.
BlankFirstEntry == Given("x-forwarded-for") /\ FirstOfXff = <<>>

\* C16: whatever the three headers hold (absent, empty, blank, or an
\* x-forwarded-for whose first entry is empty) getClientIp returns an identity
\* that is not the empty string, so the key the middleware builds from it has
\* a non-empty identity before the ":" and the path.
C16_NeverEmpty ==
    Resolved =>
        /\ Len(clientIp) >= 1
        /\ Len(KeyOf([headers |-> req.headers, pathname |-> ChatPath])) > Len(ChatPath) + 1

\* C16 witness: x-forwarded-for began with an empty entry, x-real-ip was empty
\* and x-vercel-forwarded-for absent, and the identity is the sentinel.
C16_Witness ==
    /\ Resolved
    /\ BlankFirstEntry
    /\ "x-real-ip" \in DOMAIN req.headers /\ req.headers["x-real-ip"] = <<>>
    /\ "x-vercel-forwarded-for" \notin DOMAIN req.headers
    /\ clientIp = <<"0", ".", "0", ".", "0", ".", "0">>

----------------------------------------------------------------------------
(* Properties of the middleware serving several identities and paths       *)
(* (IsoSpec)                                                               *)

\* A request has been served when the step ends.
Served == req'.kind = "request"

\* The records of the store, other than that of key k, are after the step what
\* they were before it, and no key other than k is new.
OthersUntouched(k) ==
    /\ DOMAIN memoryStore' \subseteq (DOMAIN memoryStore) \cup {k}
    /\ \A j \in DOMAIN memoryStore :
          j # k => j \in DOMAIN memoryStore' /\ memoryStore'[j] = memoryStore[j]

\* The record of the request's bucket, and the decision and the rate headers
\* of the request, count the requests made on that bucket and no other.
CountsOwnRequests ==
    (Handled /\ Limited) =>
        /\ BucketOfReq \in DOMAIN memoryStore
        /\ BucketOfReq \in DOMAIN win
        /\ result.key = BucketOfReq
        /\ win[BucketOfReq].open =>
              /\ Len(memoryStore[BucketOfReq].hits) = win[BucketOfReq].n
              /\ result.remaining = API_LIMIT - win[BucketOfReq].n
              /\ response.headers["RateLimit-Remaining"]
                    = String(API_LIMIT - win[BucketOfReq].n)

----------------------------------------------------------------------------
(* Properties of the middleware run: the store and the downstream handler  *)
(* (MwSpec)                                                                *)

\* The store holds a bucket whose quota is used up.
SomeQuotaUsedUp ==
    \E k \in DOMAIN memoryStore : Len(memoryStore[k].hits) >= API_LIMIT

PreflightOutcome ==
    response.kind = "json" /\ response.status = 204 /\ result.kind = "none"
DeniedOutcome ==
    response.kind = "json" /\ response.status = 429
    /\ result.kind = "decision" /\ ~result.allowed
AllowedOutcome == Forwarded /\ result.kind = "decision" /\ result.allowed
PassOutcome == Forwarded /\ result.kind = "none"

Outcomes == <<PreflightOutcome, DeniedOutcome, AllowedOutcome, PassOutcome>>

\* The served request has exactly one outcome, the one of its class: an
\* OPTIONS request on an API-prefixed path is a preflight, a rate-limited
\* request is denied or allowed, any other request passes through.
Classified ==
    Handled =>
        /\ Cardinality({i \in 1..Len(Outcomes) : Outcomes[i]}) = 1
        /\ (req.method = "OPTIONS" /\ OnApi) <=> PreflightOutcome
        /\ Limited <=> (DeniedOutcome \/ AllowedOutcome)
        /\ Forwarded <=> (AllowedOutcome \/ PassOutcome)

\* C29: every request has exactly one of the four outcomes (preflight 204,
\* denied 429, allowed API request, pass-through); it is handed to the
\* downstream handler exactly when it is allowed or passes through, never when
\* it is a preflight or denied; and serving it adds at most one hit to the
\* store.
C29_FourOutcomes ==
    /\ []Classified
    /\ [][Served => StoreHits(memoryStore', DOMAIN memoryStore')
                      <= StoreHits(memoryStore, DOMAIN memoryStore) + 1]_vars

\* C29 witness: a request was denied and not handed on, its own hit being the
\* one stored beyond the limit of its bucket.
C29_Witness ==
    /\ Handled /\ Limited
    /\ DeniedOutcome /\ ~Forwarded
    /\ Len(memoryStore[BucketOfReq].hits) = API_LIMIT + 1

====
